---- MODULE Spec2Model ----
(***************************************************************************)
(* A model of limiter/services/ratelimiter.py: the RateLimitLog table, the *)
(* process-wide _cache / _cache_ttl dictionaries and RateLimiter's static  *)
(* methods.                                                                *)
(*                                                                         *)
(* Time is the wall clock in whole seconds since the epoch                 *)
(* (timezone.now()), assumed not to run backwards.  The conversion of the  *)
(* fixed window's start through local time (datetime.fromtimestamp, then   *)
(* timezone.make_aware) is taken to give back the same instant.  Strings   *)
(* are sequences of characters, so that the cache key is built the way the *)
(* f-string builds it.                                                     *)
(*                                                                         *)
(* Spec, SpecUniform, SpecCacheModes, SpecStrategies and SpecIsolation     *)
(* take a check_limit call as one step at one instant; SpecConcurrent      *)
(* takes it statement by statement, for several threads.  The state is     *)
(* kept per run: run A is the program, run B a second copy of it that the  *)
(* two-run specifications feed the same timeline.                          *)
(***************************************************************************)
EXTENDS Integers, Sequences, FiniteSets, TLC

\* ------------------------------------------------------------------ bounds
\* The clock runs from 0 to MaxTime, and a run makes at most MaxCalls calls
\* (MaxCalls > MaxLimit, so that a burst can exceed every limit).
MaxTime == 3
MaxCalls == 3
MaxLimit == 2
MaxWindow == 2
\* The same for the statement-by-statement specification.
MaxConcurrentCalls == 2
MaxConcurrentTime == 1

Limits == 1..MaxLimit
Windows == 1..MaxWindow
Strategies == {"sliding", "fixed"}

\* Identifiers and endpoints are strings; ':' may occur in them (an IPv6
\* address, a path with a port).
Identifiers == {<<"a">>, <<"a", ":", "b">>}
Endpoints == {<<"c">>, <<"b", ":", "c">>}

\* Two (identifier, endpoint) keys whose cache keys coincide.
KeyAB_C == <<<<"a", ":", "b">>, <<"c">>>>
KeyA_BC == <<<<"a">>, <<"b", ":", "c">>>>

AllKeys == Identifiers \X Endpoints

\* The keys the sequential callers use.
FreeKeys == {KeyAB_C, KeyA_BC}

Runs == {"A", "B"}

\* The request-handling threads that call check_limit concurrently.
NumThreads == 2
Threads == 1..NumThreads

VARIABLES
    now,        \* timezone.now(), in seconds since the epoch
    store,      \* per run: the RateLimitLog rows, in insertion order
    cache,      \* per run: RateLimiter._cache, cache key -> <<cache_time, cache_count>>
    cache_ttl,  \* per run: RateLimiter._cache_ttl, cache key -> expiry
    last,       \* per run: the inputs and the outcome of the latest check_limit call
    ncalls,     \* how many check_limit calls, or view requests, were made
    cfg,        \* the arguments that stay the same over one run of the model
    admits,     \* per run and key: how many check_limit calls returned (were admitted)
    first_call, \* the time of the first call of a burst on one key, -1 before it
    cached_with, \* per run: cache key -> the window_seconds of the call that wrote the entry
    threads,    \* per thread: where it is in check_limit, and its local variables
    response,   \* the request and the HTTP response of the latest view request
    written     \* the <<cache key, (cache_time, count)>> that the threads of SpecTornRead
                \* have stored in _cache, each by one assignment

vars == <<now, store, cache, cache_ttl, cached_with, last, ncalls, cfg, admits, first_call,
          threads, response, written>>

\* ------------------------------------------------------- the rate limiter

HighWaterMark == 1000

RateLimitPrefix == <<"r", "a", "t", "e", "l", "i", "m", "i", "t">>

\* f"ratelimit:{identifier}:{endpoint}"
_get_cache_key(identifier, endpoint) ==
    RateLimitPrefix \o <<":">> \o identifier \o <<":">> \o endpoint

\* A cache state cs is the pair of dictionaries [c: _cache, ttl: _cache_ttl].
\* d without the keys in keys, and d with d[key] = value.
DictPop(d, keys) == IF keys = {} THEN d ELSE [k \in (DOMAIN d) \ keys |-> d[k]]

DictSet(d, key, value) ==
    IF key \in DOMAIN d THEN [d EXCEPT ![key] = value] ELSE (key :> value) @@ d

\* A mutant of the sweep: only the entry is removed, its expiry is kept.
CleanOnlyCache(cs, t) ==
    LET expired_keys == {key \in DOMAIN cs.ttl : cs.ttl[key] < t}
    IN  [c |-> DictPop(cs.c, expired_keys), ttl |-> cs.ttl]

\* Removes from both dictionaries every key whose expiry is before t.
_clean_old_cache_entries(cs, t) ==
    LET expired_keys == {key \in DOMAIN cs.ttl : cs.ttl[key] < t}
    IN  [c |-> DictPop(cs.c, expired_keys), ttl |-> DictPop(cs.ttl, expired_keys)]

\* A mutant of _get_from_cache: an entry exactly window_seconds old is still used.
GetFromCacheAtWindowAge(cs, identifier, endpoint, window_seconds, t) ==
    LET cache_key == _get_cache_key(identifier, endpoint)
    IN  IF cache_key \in DOMAIN cs.c /\ (t - cs.c[cache_key][1]) <= window_seconds
        THEN [hit |-> TRUE, count |-> cs.c[cache_key][2]]
        ELSE [hit |-> FALSE]

\* The cached count, when an entry exists and is younger than window_seconds;
\* [hit |-> FALSE] stands for None.  A stored tuple is always truthy, so a
\* cached count of 0 is returned like any other.
_get_from_cache(cs, identifier, endpoint, window_seconds, t) ==
    LET cache_key == _get_cache_key(identifier, endpoint)
    IN  IF cache_key \in DOMAIN cs.c /\ (t - cs.c[cache_key][1]) < window_seconds
        THEN [hit |-> TRUE, count |-> cs.c[cache_key][2]]
        ELSE [hit |-> FALSE]

\* t and t2 are the two readings of timezone.now() in _set_cache (t <= t2).
SetCacheAt(cs, identifier, endpoint, count, window_seconds, t, t2) ==
    LET cache_key == _get_cache_key(identifier, endpoint)
    IN  [c |-> DictSet(cs.c, cache_key, <<t, count>>),
         ttl |-> DictSet(cs.ttl, cache_key, t2 + window_seconds)]

_set_cache(cs, identifier, endpoint, count, window_seconds, t) ==
    SetCacheAt(cs, identifier, endpoint, count, window_seconds, t, t)

\* RateLimitLog.objects.filter(identifier=, endpoint=, timestamp__gte=, timestamp__lte=).count()
CountInRange(rows, identifier, endpoint, window_start, t) ==
    Cardinality({i \in DOMAIN rows :
        /\ rows[i].identifier = identifier
        /\ rows[i].endpoint = endpoint
        /\ rows[i].timestamp >= window_start
        /\ rows[i].timestamp <= t})

\* A mutant of _count_requests_sliding_window: timestamp__gt for timestamp__gte.
SlidingCountOpenStart(rows, identifier, endpoint, window_seconds, t) ==
    CountInRange(rows, identifier, endpoint, t - window_seconds + 1, t)

_count_requests_sliding_window(rows, identifier, endpoint, window_seconds, t) ==
    LET window_start == t - window_seconds
    IN  CountInRange(rows, identifier, endpoint, window_start, t)

_count_requests_fixed_window(rows, identifier, endpoint, window_seconds, t) ==
    LET epoch_seconds == t
        window_start_seconds == (epoch_seconds \div window_seconds) * window_seconds
    IN  CountInRange(rows, identifier, endpoint, window_start_seconds, t)

\* A mutant of the insert: the two arguments are swapped.
CreateLogSwapped(rows, identifier, endpoint, t) ==
    Append(rows, [identifier |-> endpoint, endpoint |-> identifier, timestamp |-> t])

\* RateLimitLog.objects.create(identifier=, endpoint=); timestamp is auto_now_add.
CreateLog(rows, identifier, endpoint, t) ==
    Append(rows, [identifier |-> identifier, endpoint |-> endpoint, timestamp |-> t])

\* check_limit, lines 126-128: the inline sweep.
SweepIfLarge(cs, t) ==
    IF Cardinality(DOMAIN cs.c) > HighWaterMark THEN _clean_old_cache_entries(cs, t) ELSE cs

\* check_limit, lines 138-146: the count by strategy.
CountByStrategy(rows, identifier, endpoint, window_seconds, strategy, t) ==
    IF strategy = "sliding"
    THEN _count_requests_sliding_window(rows, identifier, endpoint, window_seconds, t)
    ELSE _count_requests_fixed_window(rows, identifier, endpoint, window_seconds, t)

\* A mutant of the lookup: the count is cached again after a hit too.
ResolveCountRestamp(rows, cs, identifier, endpoint, window_seconds, strategy, use_cache, t) ==
    LET cached == IF use_cache
                  THEN _get_from_cache(cs, identifier, endpoint, window_seconds, t)
                  ELSE [hit |-> FALSE]
        current_count ==
            IF cached.hit
            THEN cached.count
            ELSE CountByStrategy(rows, identifier, endpoint, window_seconds, strategy, t)
    IN  [current_count |-> current_count,
         hit |-> cached.hit,
         cs |-> IF use_cache
                THEN _set_cache(cs, identifier, endpoint, current_count, window_seconds, t)
                ELSE cs]

\* check_limit, lines 130-150: current_count and the cache after the lookup.
ResolveCount(rows, cs, identifier, endpoint, window_seconds, strategy, use_cache, t) ==
    LET cached == IF use_cache
                  THEN _get_from_cache(cs, identifier, endpoint, window_seconds, t)
                  ELSE [hit |-> FALSE]
    IN  IF cached.hit
        THEN [current_count |-> cached.count, hit |-> TRUE, cs |-> cs]
        ELSE LET current_count ==
                     CountByStrategy(rows, identifier, endpoint, window_seconds, strategy, t)
             IN  [current_count |-> current_count,
                  hit |-> FALSE,
                  cs |-> IF use_cache
                         THEN _set_cache(cs, identifier, endpoint, current_count,
                                         window_seconds, t)
                         ELSE cs]

\* A mutant of the comparison: > for >=.
LimitExceededStrict(current_count, limit) == current_count > limit

\* check_limit, line 153.
LimitExceeded(current_count, limit) == current_count >= limit

\* check_limit, line 170.
Remaining(limit, current_count) == limit - (current_count + 1)

\* A mutant of the cache update: the count is cached without the new request.
UpdateCacheStale(cs, identifier, endpoint, current_count, window_seconds, use_cache, t) ==
    IF use_cache
    THEN _set_cache(cs, identifier, endpoint, current_count, window_seconds, t)
    ELSE cs

\* check_limit, lines 165-168.
UpdateCache(cs, identifier, endpoint, current_count, window_seconds, use_cache, t) ==
    IF use_cache
    THEN _set_cache(cs, identifier, endpoint, current_count + 1, window_seconds, t)
    ELSE cs

\* check_limit, lines 152-173: what the call does once current_count is known.
Decide(rows, r, identifier, endpoint, limit, window_seconds, use_cache, t) ==
    IF LimitExceeded(r.current_count, limit)
    THEN [rows |-> rows, cs |-> r.cs,
          outcome |-> "RateLimitExceeded", current_count |-> r.current_count, hit |-> r.hit]
    ELSE [rows |-> CreateLog(rows, identifier, endpoint, t),
          cs |-> UpdateCache(r.cs, identifier, endpoint, r.current_count,
                             window_seconds, use_cache, t),
          outcome |-> "admit", current_count |-> r.current_count, hit |-> r.hit,
          is_allowed |-> TRUE,
          remaining |-> Remaining(limit, r.current_count),
          reset_time |-> t + window_seconds]

\* The whole call at one instant t: the rows and the cache after it, and its result.
check_limit(rows, cs, identifier, endpoint, limit, window_seconds, strategy, use_cache, t) ==
    LET swept == SweepIfLarge(cs, t)
        r == ResolveCount(rows, swept, identifier, endpoint, window_seconds,
                          strategy, use_cache, t)
    IN  Decide(rows, r, identifier, endpoint, limit, window_seconds, use_cache, t)

\* The statements of check_limit that query the store: the count of lines 138-146
\* and the create of lines 160-163.
StoreStatements == {"count", "create"}

\* A mutant of check_limit_store_fails: the cache is updated before the row is
\* created.
check_limit_cache_first(rows, cs, identifier, endpoint, limit, window_seconds, strategy, use_cache, t, fails_at) ==
    LET swept == SweepIfLarge(cs, t)
        r == ResolveCount(rows, swept, identifier, endpoint, window_seconds,
                          strategy, use_cache, t)
    IN  IF fails_at = "count" /\ ~r.hit
        THEN [rows |-> rows, cs |-> swept, outcome |-> "DatabaseError",
              current_count |-> -1, hit |-> FALSE]
        ELSE IF fails_at = "create" /\ ~LimitExceeded(r.current_count, limit)
        THEN [rows |-> rows,
              cs |-> UpdateCache(r.cs, identifier, endpoint, r.current_count,
                                 window_seconds, use_cache, t),
              outcome |-> "DatabaseError",
              current_count |-> r.current_count, hit |-> r.hit]
        ELSE Decide(rows, r, identifier, endpoint, limit, window_seconds, use_cache, t)

\* check_limit when the store raises (django.db.DatabaseError) in the statement
\* fails_at.  check_limit has no try, so the exception leaves the call at that
\* statement: a failed count is before every cache write, a failed create is
\* after the write of line 150 and before that of line 167.  current_count is
\* -1 while it is not assigned.  When the call never reaches the statement (a
\* hit makes no count, a denied call no create) it is the call of check_limit.
check_limit_store_fails(rows, cs, identifier, endpoint, limit, window_seconds, strategy, use_cache, t, fails_at) ==
    LET swept == SweepIfLarge(cs, t)
        r == ResolveCount(rows, swept, identifier, endpoint, window_seconds,
                          strategy, use_cache, t)
    IN  IF fails_at = "count" /\ ~r.hit
        THEN [rows |-> rows, cs |-> swept, outcome |-> "DatabaseError",
              current_count |-> -1, hit |-> FALSE]
        ELSE IF fails_at = "create" /\ ~LimitExceeded(r.current_count, limit)
        THEN [rows |-> rows, cs |-> r.cs, outcome |-> "DatabaseError",
              current_count |-> r.current_count, hit |-> r.hit]
        ELSE Decide(rows, r, identifier, endpoint, limit, window_seconds, use_cache, t)

\* ---------------------------------------------------------------- the views

\* A value of the JSON request body, as Python sees it after parsing; JAbsent
\* is a key the body does not have.
JAbsent == [t |-> "absent"]
JNull == [t |-> "null"]
JInt(n) == [t |-> "int", int |-> n]
JBool(b) == [t |-> "bool", bool |-> b]
JStr(str) == [t |-> "str", str |-> str]

\* request.data.get(key, default)
DataGet(data, key, default) == IF data[key] = JAbsent THEN default ELSE data[key]

\* Python's truth value of x (what `not x` negates).
Truthy(x) ==
    CASE x.t = "null" -> FALSE
      [] x.t = "int" -> x.int # 0
      [] x.t = "bool" -> x.bool
      [] x.t = "str" -> x.str # <<>>

\* isinstance(x, int): bool is a subclass of int.
IsInstanceInt(x) == x.t \in {"int", "bool"}

\* The integer a Python int is in arithmetic and comparisons; True is 1, False 0.
IntValue(x) == IF x.t = "bool" THEN (IF x.bool THEN 1 ELSE 0) ELSE x.int

PingEndpoint == <<"/", "a", "p", "i", "/", "p", "i", "n", "g", "/">>
CustomLimitEndpoint ==
    <<"/", "a", "p", "i", "/", "c", "u", "s", "t", "o", "m", "-", "l", "i", "m", "i", "t", "/">>
PingLimit == 5
PingWindowSeconds == 60
SecondsPerHour == 3600
RecentRequestsShown == 10

Sliding == <<"s", "l", "i", "d", "i", "n", "g">>
Fixed == <<"f", "i", "x", "e", "d">>

\* CustomLimitView.post, lines 73-96: the error of the first failing test, or
\* "" when the body passes.
ValidationError(identifier, limit, window, strategy) ==
    IF ~Truthy(identifier)
    THEN "identifier is required"
    ELSE IF ~Truthy(limit) \/ ~IsInstanceInt(limit) \/ IntValue(limit) <= 0
    THEN "limit must be a positive integer"
    ELSE IF ~Truthy(window) \/ ~IsInstanceInt(window) \/ IntValue(window) <= 0
    THEN "window must be a positive integer (seconds)"
    ELSE IF strategy \notin {JStr(Sliding), JStr(Fixed)}
    THEN "strategy must be 'sliding' or 'fixed'"
    ELSE ""

\* StatsView.get, filter(identifier=identifier, timestamp__gte=start_time): the
\* positions of the matching rows.  A mutant: timestamp__gt.
StatsFilterOpenStart(rows, identifier, start_time) ==
    {i \in DOMAIN rows : rows[i].identifier = identifier /\ rows[i].timestamp > start_time}

StatsFilter(rows, identifier, start_time) ==
    {i \in DOMAIN rows : rows[i].identifier = identifier /\ rows[i].timestamp >= start_time}

SetMax(S) == CHOOSE x \in S : \A y \in S : y <= x
SetMin(S) == CHOOSE x \in S : \A y \in S : x <= y

\* .values('endpoint').annotate(count=Count('id'), last_request=Max('timestamp'))
GroupByEndpoint(rows, S) ==
    {[endpoint |-> e,
      count |-> Cardinality({i \in S : rows[i].endpoint = e}),
      last_request |-> SetMax({rows[i].timestamp : i \in {j \in S : rows[j].endpoint = e}})]
        : e \in {rows[i].endpoint : i \in S}}

\* .order_by('-count'): the lists the database may return, the order of groups
\* with equal counts being left to it.
OrderByCountDesc(G) ==
    {s \in [1..Cardinality(G) -> G] :
        /\ \A g \in G : \E i \in DOMAIN s : s[i] = g
        /\ \A i, j \in DOMAIN s : i < j => s[i].count >= s[j].count}

\* .order_by('-timestamp') over the rows at the positions S.  The order of rows
\* with equal timestamps is left to the database: by ascending or by descending
\* id, the two directions of an index scan.
RECURSIVE OrderByTimestampDesc(_, _, _)
OrderByTimestampDesc(rows, S, ascending_ids) ==
    IF S = {}
    THEN <<>>
    ELSE LET newest == {i \in S : \A j \in S : rows[j].timestamp <= rows[i].timestamp}
             first == IF ascending_ids THEN SetMin(newest) ELSE SetMax(newest)
         IN  <<first>> \o OrderByTimestampDesc(rows, S \ {first}, ascending_ids)

\* [:10]
SliceRecent(ordered) ==
    SubSeq(ordered, 1, IF Len(ordered) < RecentRequestsShown
                       THEN Len(ordered) ELSE RecentRequestsShown)

\* StatsView.get: the responses the view may give, one for each order the
\* database may return the groups and the rows in.
StatsView_get(rows, identifier, hours, t) ==
    LET start_time == t - hours * SecondsPerHour
        matching == StatsFilter(rows, identifier, start_time)
    IN  {[view |-> "stats", status |-> 200,
          identifier |-> identifier, time_range_hours |-> hours,
          start_time |-> start_time, end_time |-> t,
          total_requests |-> Cardinality(matching),
          by_endpoint |-> stats,
          recent_requests |->
              LET recent_requests ==
                      SliceRecent(OrderByTimestampDesc(rows, matching, ascending_ids))
              IN  [k \in DOMAIN recent_requests |->
                      [endpoint |-> rows[recent_requests[k]].endpoint,
                       timestamp |-> rows[recent_requests[k]].timestamp]]]
            : stats \in OrderByCountDesc(GroupByEndpoint(rows, matching)),
              ascending_ids \in BOOLEAN}

\* ------------------------------------------------------------ the machine

\* What `last` keeps of a call: its arguments and its time, and what it returned
\* or raised.
CallRecord(res, identifier, endpoint, limit, window_seconds, strategy, use_cache, t) ==
    [identifier |-> identifier, endpoint |-> endpoint, limit |-> limit,
     window_seconds |-> window_seconds, strategy |-> strategy, use_cache |-> use_cache,
     time |-> t, outcome |-> res.outcome, current_count |-> res.current_count,
     hit |-> res.hit,
     returned |-> IF res.outcome = "admit"
                  THEN <<res.is_allowed, res.remaining, res.reset_time>>
                  ELSE <<>>]

NoCall == [outcome |-> "none"]

\* A thread that is not inside check_limit.
Idle == [pc |-> "idle"]

\* No view request was answered yet.
NoResponse == [view |-> "none"]

Blank ==
    /\ now = 0
    /\ store = [r \in Runs |-> <<>>]
    /\ cache = [r \in Runs |-> <<>>]
    /\ cache_ttl = [r \in Runs |-> <<>>]
    /\ cached_with = [r \in Runs |-> <<>>]
    /\ last = [r \in Runs |-> NoCall]
    /\ ncalls = 0
    /\ admits = [r \in Runs |-> [k \in AllKeys |-> 0]]
    /\ threads = [p \in Threads |-> Idle]
    /\ first_call = -1
    /\ response = NoResponse
    /\ written = {}

\* The callers of one run agree on limit and strategy; the key, the window and
\* use_cache vary from call to call.
Init ==
    /\ Blank
    /\ cfg \in [limit : Limits, strategy : Strategies]

\* The clock advances by one second, up to max.
TickTo(max) ==
    /\ now < max
    /\ now' = now + 1
    /\ UNCHANGED <<store, cache, cache_ttl, cached_with, last, ncalls, cfg, written, admits,
                   first_call, threads, response>>

\* The window_seconds each entry of the cache was written with, after a call with
\* result res: the call wrote the entry of its key on a miss (line 150) and on an
\* admit (line 167), and its sweep dropped the entries that are gone.
WrittenWith(before, res, identifier, endpoint, window_seconds, use_cache) ==
    LET cache_key == _get_cache_key(identifier, endpoint)
        wrote == use_cache /\ (~res.hit \/ res.outcome = "admit")
        kept == DictPop(before, DOMAIN before \ DOMAIN res.cs.c)
    IN  IF wrote THEN DictSet(kept, cache_key, window_seconds) ELSE kept

\* Run r makes one check_limit call at the current time.
CallIn(r, identifier, endpoint, limit, window_seconds, strategy, use_cache) ==
    LET res == check_limit(store[r], [c |-> cache[r], ttl |-> cache_ttl[r]],
                           identifier, endpoint, limit, window_seconds,
                           strategy, use_cache, now)
    IN  [store |-> res.rows, cache |-> res.cs.c, cache_ttl |-> res.cs.ttl,
         cached_with |-> WrittenWith(cached_with[r], res, identifier, endpoint,
                                     window_seconds, use_cache),
         last |-> CallRecord(res, identifier, endpoint, limit, window_seconds,
                             strategy, use_cache, now),
         admits |-> IF res.outcome = "admit"
                    THEN [admits[r] EXCEPT ![<<identifier, endpoint>>] = @ + 1]
                    ELSE admits[r]]

\* The variables of run r after the call whose effect is n; the other run is left
\* alone.  (m is n, evaluated once.)
Commit(r, n) ==
    \E m \in {n} :
        /\ store' = [store EXCEPT ![r] = m.store]
        /\ cache' = [cache EXCEPT ![r] = m.cache]
        /\ cache_ttl' = [cache_ttl EXCEPT ![r] = m.cache_ttl]
        /\ cached_with' = [cached_with EXCEPT ![r] = m.cached_with]
        /\ last' = [last EXCEPT ![r] = m.last]
        /\ admits' = [admits EXCEPT ![r] = m.admits]

\* A sequential caller makes one check_limit call.
CheckLimit ==
    /\ ncalls < MaxCalls
    /\ \E key \in FreeKeys, window_seconds \in Windows, use_cache \in BOOLEAN :
          Commit("A", CallIn("A", key[1], key[2], cfg.limit, window_seconds,
                             cfg.strategy, use_cache))
    /\ ncalls' = ncalls + 1
    /\ UNCHANGED <<now, cfg, written, first_call, threads, response>>

Tick == TickTo(MaxTime)

Next == Tick \/ CheckLimit

Spec == Init /\ [][Next]_vars

\* ------------------------------------------- one caller, the same arguments

\* Every call of the run has the same key, limit, window, strategy and use_cache.
InitUniform ==
    /\ Blank
    /\ cfg \in [limit : Limits, window_seconds : Windows, strategy : Strategies,
               use_cache : BOOLEAN]

\* One more call on the key, with the arguments of the run.
CheckLimitUniform ==
    /\ ncalls < MaxCalls
    /\ Commit("A", CallIn("A", KeyAB_C[1], KeyAB_C[2], cfg.limit, cfg.window_seconds,
                          cfg.strategy, cfg.use_cache))
    /\ ncalls' = ncalls + 1
    /\ first_call' = IF ncalls = 0 THEN now ELSE first_call
    /\ UNCHANGED <<now, cfg, written, threads, response>>

NextUniform == Tick \/ CheckLimitUniform

SpecUniform == InitUniform /\ [][NextUniform]_vars

\* ------------------------------------- concurrent calls, statement by statement

\* The threads share the rows and the cache of run A.  Every call of the run has
\* the same key, limit, window, strategy and use_cache; each statement of check_limit
\* that reads or writes shared state is one step, and reads the clock when it runs.
InitConcurrent ==
    /\ Blank
    /\ cfg \in [limit : Limits, window_seconds : Windows, strategy : Strategies,
               use_cache : BOOLEAN]

CacheOfA == [c |-> cache["A"], ttl |-> cache_ttl["A"]]

SetCacheOfA(cs) ==
    /\ cache' = [cache EXCEPT !["A"] = cs.c]
    /\ cache_ttl' = [cache_ttl EXCEPT !["A"] = cs.ttl]
    /\ cached_with' = [cached_with EXCEPT
                          !["A"] = [k \in DOMAIN cs.c |-> cfg.window_seconds]]

\* A thread raises or returns: the call is over and `last` keeps its result.
Finish(p, res) ==
    LET th == threads[p]
    IN  /\ last' = [last EXCEPT !["A"] =
                       CallRecord(res, th.identifier, th.endpoint, cfg.limit,
                                  cfg.window_seconds, cfg.strategy, cfg.use_cache, now)]
        /\ threads' = [threads EXCEPT ![p] = Idle]

\* Lines 152-157, which touch no shared state and so are taken together with the
\* statement before them: thread p, now holding current_count, raises or goes on
\* to append its row.
Compare(p, current_count, hit) ==
    IF LimitExceeded(current_count, cfg.limit)
    THEN Finish(p, [outcome |-> "RateLimitExceeded",
                    current_count |-> current_count, hit |-> hit])
    ELSE /\ threads' = [threads EXCEPT ![p] =
                [@ EXCEPT !.pc = "create", !.current_count = current_count, !.hit = hit]]
         /\ last' = last

\* Lines 170-173, which touch no shared state and so are taken together with the
\* statement before them: the call returns.
Return(p) ==
    LET th == threads[p]
    IN  /\ Finish(p, [outcome |-> "admit", current_count |-> th.current_count,
                      hit |-> th.hit, is_allowed |-> TRUE,
                      remaining |-> Remaining(cfg.limit, th.current_count),
                      reset_time |-> now + cfg.window_seconds])
        /\ admits' = [admits EXCEPT !["A"][<<th.identifier, th.endpoint>>] = @ + 1]

\* Lines 126-128: a thread enters check_limit, and sweeps if the cache is large.
Enter(p) ==
    /\ threads[p].pc = "idle"
    /\ ncalls < MaxConcurrentCalls
    /\ ncalls' = ncalls + 1
    /\ threads' = [threads EXCEPT ![p] =
           [pc |-> IF cfg.use_cache THEN "lookup" ELSE "count",
            identifier |-> KeyAB_C[1], endpoint |-> KeyAB_C[2],
            current_count |-> 0, hit |-> FALSE]]
    /\ SetCacheOfA(SweepIfLarge(CacheOfA, now))
    /\ UNCHANGED <<now, store, last, cfg, written, admits, first_call, response>>

\* Lines 130-136: the cache read; on a hit the comparison follows.
Lookup(p) ==
    /\ threads[p].pc = "lookup"
    /\ LET th == threads[p]
           cached == _get_from_cache(CacheOfA, th.identifier, th.endpoint,
                                     cfg.window_seconds, now)
       IN  IF cached.hit
           THEN Compare(p, cached.count, TRUE)
           ELSE /\ threads' = [threads EXCEPT ![p] = [th EXCEPT !.pc = "count"]]
                /\ last' = last
    /\ UNCHANGED <<now, store, cache, cache_ttl, cached_with, ncalls, cfg, written, admits, first_call,
                   response>>

\* Lines 138-146: the count of the rows; without the cache the comparison follows.
Count(p) ==
    /\ threads[p].pc = "count"
    /\ LET th == threads[p]
           current_count == CountByStrategy(store["A"], th.identifier, th.endpoint,
                                            cfg.window_seconds, cfg.strategy, now)
       IN  IF cfg.use_cache
           THEN /\ threads' = [threads EXCEPT ![p] =
                       [th EXCEPT !.pc = "cache_result", !.current_count = current_count]]
                /\ last' = last
           ELSE Compare(p, current_count, FALSE)
    /\ UNCHANGED <<now, store, cache, cache_ttl, cached_with, ncalls, cfg, written, admits, first_call,
                   response>>

\* Lines 148-150: the counted value is cached; the comparison follows.
CacheResult(p) ==
    /\ threads[p].pc = "cache_result"
    /\ LET th == threads[p]
       IN  /\ SetCacheOfA(_set_cache(CacheOfA, th.identifier, th.endpoint,
                                     th.current_count, cfg.window_seconds, now))
           /\ Compare(p, th.current_count, FALSE)
    /\ UNCHANGED <<now, store, ncalls, cfg, written, admits, first_call, response>>

\* Lines 159-163: the row is appended; without the cache the call then returns.
Create(p) ==
    /\ threads[p].pc = "create"
    /\ LET th == threads[p]
       IN  /\ store' = [store EXCEPT !["A"] = CreateLog(@, th.identifier, th.endpoint, now)]
           /\ IF cfg.use_cache
              THEN /\ threads' = [threads EXCEPT ![p] = [th EXCEPT !.pc = "update"]]
                   /\ UNCHANGED <<last, admits>>
              ELSE Return(p)
    /\ UNCHANGED <<now, cache, cache_ttl, cached_with, ncalls, cfg, written, first_call, response>>

\* Lines 165-168: the cache is updated, and the call returns.
Update(p) ==
    /\ threads[p].pc = "update"
    /\ LET th == threads[p]
       IN  /\ SetCacheOfA(UpdateCache(CacheOfA, th.identifier, th.endpoint,
                                      th.current_count, cfg.window_seconds,
                                      cfg.use_cache, now))
           /\ Return(p)
    /\ UNCHANGED <<now, store, ncalls, cfg, written, first_call, response>>

TickConcurrent == TickTo(MaxConcurrentTime)

NextConcurrent ==
    \/ TickConcurrent
    \/ \E p \in Threads :
          \/ Enter(p)
          \/ Lookup(p)
          \/ Count(p)
          \/ CacheResult(p)
          \/ Create(p)
          \/ Update(p)

SpecConcurrent == InitConcurrent /\ [][NextConcurrent]_vars

\* ------------------------------- the cache helpers, statement by statement

\* SpecTornRead runs the calls of SpecConcurrent with _get_from_cache and
\* _set_cache taken apart: every statement of theirs that reads or writes a
\* dictionary, or keeps a local variable, is a step of its own.

\* _cache.get(cache_key): <<>> stands for None, <<entry>> for the stored tuple.
CacheGet(c, cache_key) == IF cache_key \in DOMAIN c THEN <<c[cache_key]>> ELSE <<>>

\* A mutant of the unpacking: cache_time comes from the tuple read at line 44,
\* the count is read from the dictionary again.
UnpackCountReread(cache_data, c, cache_key) ==
    <<cache_data[1][1],
      IF cache_key \in DOMAIN c THEN c[cache_key][2] ELSE cache_data[1][2]>>

\* Line 47, cache_time, cache_count = cache_data: both come from the local tuple.
Unpack(cache_data, c, cache_key) == cache_data[1]

\* Line 60: one assignment stores the tuple (timezone.now(), count).
StoreEntry(cs, cache_key, count, t) ==
    [c |-> DictSet(cs.c, cache_key, <<t, count>>), ttl |-> cs.ttl]

\* Line 61: the expiry is stored by a second assignment, with its own clock reading.
StoreExpiry(cs, cache_key, window_seconds, t) ==
    [c |-> cs.c, ttl |-> DictSet(cs.ttl, cache_key, t + window_seconds)]

\* The calls use the cache and count by the sliding window; the limit and the
\* window are the smallest or the largest ones.
InitTornRead ==
    /\ Blank
    /\ cfg \in [limit : {1, MaxLimit}, window_seconds : {1, MaxWindow}, strategy : {"sliding"},
               use_cache : {TRUE}]

\* Lines 43-46 and 54: the dictionary is read once; None is a miss.
GetCacheData(p) ==
    /\ threads[p].pc = "lookup"
    /\ LET th == threads[p]
           cache_data == CacheGet(cache["A"], _get_cache_key(th.identifier, th.endpoint))
       IN  threads' = [threads EXCEPT ![p] =
               IF cache_data = <<>>
               THEN [th EXCEPT !.pc = "count"]
               ELSE [pc |-> "unpack", cache_data |-> cache_data] @@ th]
    /\ UNCHANGED <<now, store, cache, cache_ttl, cached_with, last, ncalls, cfg, written,
                   admits, first_call, response>>

\* Line 47: the tuple is unpacked into cache_time and cache_count.
UnpackCacheData(p) ==
    /\ threads[p].pc = "unpack"
    /\ LET th == threads[p]
           pair == Unpack(th.cache_data, cache["A"],
                          _get_cache_key(th.identifier, th.endpoint))
       IN  threads' = [threads EXCEPT ![p] =
               [pc |-> "age", cache_time |-> pair[1], cache_count |-> pair[2]] @@ th]
    /\ UNCHANGED <<now, store, cache, cache_ttl, cached_with, last, ncalls, cfg, written,
                   admits, first_call, response>>

\* Lines 48-54: the age of the entry, by the clock as it is now; a young entry
\* is a hit and the comparison follows, an old one is a miss.
CacheAge(p) ==
    /\ threads[p].pc = "age"
    /\ LET th == threads[p]
       IN  IF now - th.cache_time < cfg.window_seconds
           THEN Compare(p, th.cache_count, TRUE)
           ELSE /\ threads' = [threads EXCEPT ![p] = [th EXCEPT !.pc = "count"]]
                /\ last' = last
    /\ UNCHANGED <<now, store, cache, cache_ttl, cached_with, ncalls, cfg, written, admits,
                   first_call, response>>

\* Thread p stores (now, count) under its key by the assignment of line 60.
WriteEntry(p, count, pc) ==
    LET th == threads[p]
        cache_key == _get_cache_key(th.identifier, th.endpoint)
    IN  /\ SetCacheOfA(StoreEntry(CacheOfA, cache_key, count, now))
        /\ written' = written \cup {<<cache_key, <<now, count>>>>}
        /\ threads' = [threads EXCEPT ![p] = [th EXCEPT !.pc = pc]]
        /\ UNCHANGED <<now, store, last, ncalls, cfg, admits, first_call, response>>

\* Thread p stores the expiry of its key by the assignment of line 61.
WriteExpiry(p) ==
    LET th == threads[p]
    IN  SetCacheOfA(StoreExpiry(CacheOfA, _get_cache_key(th.identifier, th.endpoint),
                                cfg.window_seconds, now))

\* Lines 148-150, first half: the counted value is stored.
CacheResultEntry(p) ==
    /\ threads[p].pc = "cache_result"
    /\ WriteEntry(p, threads[p].current_count, "cache_result_ttl")

\* Lines 148-150, second half: its expiry is stored; the comparison follows.
CacheResultExpiry(p) ==
    /\ threads[p].pc = "cache_result_ttl"
    /\ WriteExpiry(p)
    /\ Compare(p, threads[p].current_count, FALSE)
    /\ UNCHANGED <<now, store, ncalls, cfg, written, admits, first_call, response>>

\* Lines 165-168, first half: the count with the new request is stored.
UpdateEntry(p) ==
    /\ threads[p].pc = "update"
    /\ WriteEntry(p, threads[p].current_count + 1, "update_ttl")

\* Lines 165-168, second half: its expiry is stored, and the call returns.
UpdateExpiry(p) ==
    /\ threads[p].pc = "update_ttl"
    /\ WriteExpiry(p)
    /\ Return(p)
    /\ UNCHANGED <<now, store, ncalls, cfg, written, first_call, response>>

NextTornRead ==
    \/ TickConcurrent
    \/ \E p \in Threads :
          \/ Enter(p)
          \/ GetCacheData(p)
          \/ UnpackCacheData(p)
          \/ CacheAge(p)
          \/ Count(p)
          \/ CacheResultEntry(p)
          \/ CacheResultExpiry(p)
          \/ Create(p)
          \/ UpdateEntry(p)
          \/ UpdateExpiry(p)

SpecTornRead == InitTornRead /\ [][NextTornRead]_vars

\* ------------------------------------------ two runs fed the same timeline

\* Runs A and B make the same call at the same time, but for (strategyA, cacheA)
\* in A and (strategyB, cacheB) in B.
CallBoth(key, limit, window_seconds, strategyA, cacheA, strategyB, cacheB) ==
    \E a \in {CallIn("A", key[1], key[2], limit, window_seconds, strategyA, cacheA)},
       b \in {CallIn("B", key[1], key[2], limit, window_seconds, strategyB, cacheB)} :
        /\ store' = [store EXCEPT !["A"] = a.store, !["B"] = b.store]
        /\ cache' = [cache EXCEPT !["A"] = a.cache, !["B"] = b.cache]
        /\ cache_ttl' = [cache_ttl EXCEPT !["A"] = a.cache_ttl, !["B"] = b.cache_ttl]
        /\ cached_with' = [cached_with EXCEPT !["A"] = a.cached_with,
                                              !["B"] = b.cached_with]
        /\ last' = [last EXCEPT !["A"] = a.last, !["B"] = b.last]
        /\ admits' = [admits EXCEPT !["A"] = a.admits, !["B"] = b.admits]

\* Run A always passes use_cache=True, run B always use_cache=False.
InitCacheModes ==
    /\ Blank
    /\ cfg \in [limit : Limits, window_seconds : Windows, strategy : Strategies]

CheckLimitCacheModes ==
    /\ ncalls < MaxCalls
    /\ CallBoth(KeyAB_C, cfg.limit, cfg.window_seconds, cfg.strategy, TRUE,
                cfg.strategy, FALSE)
    /\ ncalls' = ncalls + 1
    /\ UNCHANGED <<now, cfg, written, first_call, threads, response>>

NextCacheModes == Tick \/ CheckLimitCacheModes

SpecCacheModes == InitCacheModes /\ [][NextCacheModes]_vars

\* Run A always passes strategy='fixed', run B always strategy='sliding'.
InitStrategies ==
    /\ Blank
    /\ cfg \in [limit : Limits, window_seconds : Windows, use_cache : BOOLEAN]

CheckLimitStrategies ==
    /\ ncalls < MaxCalls
    /\ CallBoth(KeyAB_C, cfg.limit, cfg.window_seconds, "fixed", cfg.use_cache,
                "sliding", cfg.use_cache)
    /\ ncalls' = ncalls + 1
    /\ UNCHANGED <<now, cfg, written, first_call, threads, response>>

NextStrategies == Tick \/ CheckLimitStrategies

SpecStrategies == InitStrategies /\ [][NextStrategies]_vars

\* Run A sees the calls on every key, run B only those on KeyAB_C.
InitIsolation ==
    /\ Blank
    /\ cfg \in [limit : Limits, window_seconds : Windows, strategy : Strategies,
               use_cache : BOOLEAN]

CheckLimitWatchedKey ==
    /\ ncalls < MaxCalls
    /\ CallBoth(KeyAB_C, cfg.limit, cfg.window_seconds, cfg.strategy, cfg.use_cache,
                cfg.strategy, cfg.use_cache)
    /\ ncalls' = ncalls + 1
    /\ UNCHANGED <<now, cfg, written, first_call, threads, response>>

CheckLimitOtherKey ==
    /\ ncalls < MaxCalls
    /\ \E key \in AllKeys \ {KeyAB_C} :
          Commit("A", CallIn("A", key[1], key[2], cfg.limit, cfg.window_seconds,
                             cfg.strategy, cfg.use_cache))
    /\ ncalls' = ncalls + 1
    /\ UNCHANGED <<now, cfg, written, first_call, threads, response>>

NextIsolation == Tick \/ CheckLimitWatchedKey \/ CheckLimitOtherKey

SpecIsolation == InitIsolation /\ [][NextIsolation]_vars

\* ------------------------------------- sequential callers that all use the cache

\* A run makes at most MaxCachedCalls calls, all with use_cache=True and with
\* the same limit, window and strategy, on either of the two keys.
MaxCachedCalls == 4

InitCached ==
    /\ Blank
    /\ cfg \in [limit : Limits, window_seconds : Windows, strategy : Strategies]

CheckLimitCached ==
    /\ ncalls < MaxCachedCalls
    /\ \E key \in FreeKeys :
          Commit("A", CallIn("A", key[1], key[2], cfg.limit, cfg.window_seconds,
                             cfg.strategy, TRUE))
    /\ ncalls' = ncalls + 1
    /\ UNCHANGED <<now, cfg, written, first_call, threads, response>>

NextCached == Tick \/ CheckLimitCached

SpecCached == InitCached /\ [][NextCached]_vars

\* ------------------------------------------------- a caller that keeps retrying

\* The clock runs long enough for two windows of the run to pass after the
\* first second.
RetryHorizon == 2 * cfg.window_seconds + 1

TickRetry == TickTo(RetryHorizon)

\* One more call on the key, with the arguments of the run; the calls are not
\* counted, the caller never gives up.
Retry ==
    /\ Commit("A", CallIn("A", KeyAB_C[1], KeyAB_C[2], cfg.limit, cfg.window_seconds,
                          cfg.strategy, cfg.use_cache))
    /\ UNCHANGED <<now, ncalls, cfg, written, first_call, threads, response>>

NextRetry == TickRetry \/ Retry

\* Time keeps advancing, up to the horizon, and the caller keeps retrying.
SpecRetry ==
    InitUniform /\ [][NextRetry]_vars /\ WF_vars(TickRetry) /\ WF_vars(Retry)

\* -------------------------------------------------- requests to the views

\* A run makes at most MaxRequests requests, over MaxStatsHours hours.
MaxRequests == 3
MaxStatsHours == 1
StatsHours == 0..MaxStatsHours

ViewKeys == Identifiers \X {PingEndpoint, CustomLimitEndpoint}

\* The rows and the cache after n custom-limit requests of identifier 'a' with
\* limit n, all made at time 0 and so all admitted.
RECURSIVE AfterPosts(_, _, _)
AfterPosts(n, limit, window_seconds) ==
    IF n = 0
    THEN [rows |-> <<>>, cs |-> [c |-> <<>>, ttl |-> <<>>]]
    ELSE LET before == AfterPosts(n - 1, limit, window_seconds)
         IN  check_limit(before.rows, before.cs, <<"a">>, CustomLimitEndpoint, limit,
                         window_seconds, "sliding", TRUE, 0)

\* The server has answered no request yet, or has admitted a burst of
\* RecentRequestsShown custom-limit requests.  The valid bodies of the run
\* carry cfg.limit and cfg.window_seconds, the longest of the windows.
InitViews ==
    /\ now = 0
    /\ cfg \in [limit : Limits, window_seconds : {MaxWindow}]
    /\ \E n \in {0, RecentRequestsShown} :
          LET before == AfterPosts(n, n, cfg.window_seconds)
          IN  /\ store = [r \in Runs |-> IF r = "A" THEN before.rows ELSE <<>>]
              /\ cache = [r \in Runs |-> IF r = "A" THEN before.cs.c ELSE <<>>]
              /\ cache_ttl = [r \in Runs |-> IF r = "A" THEN before.cs.ttl ELSE <<>>]
              /\ cached_with = [r \in Runs |-> IF r = "A"
                     THEN [k \in DOMAIN before.cs.c |-> cfg.window_seconds] ELSE <<>>]
              /\ admits = [r \in Runs |-> [k \in ViewKeys |->
                     IF r = "A" /\ k = <<(<<"a">>), CustomLimitEndpoint>> THEN n ELSE 0]]
    /\ last = [r \in Runs |-> NoCall]
    /\ ncalls = 0
    /\ threads = [p \in Threads |-> Idle]
    /\ first_call = -1
    /\ response = NoResponse
    /\ written = {}

\* An hour passes.
TickHour ==
    /\ now < MaxStatsHours * SecondsPerHour
    /\ now' = now + SecondsPerHour
    /\ UNCHANGED <<store, cache, cache_ttl, cached_with, last, ncalls, cfg, written, admits,
                   first_call, threads, response>>

\* GET /api/ping/, from one of the client addresses.
PingGet ==
    /\ ncalls < MaxRequests
    /\ \E client_ip \in Identifiers :
          LET n == CallIn("A", client_ip, PingEndpoint, PingLimit, PingWindowSeconds,
                          "sliding", TRUE)
          IN  /\ Commit("A", n)
              /\ response' =
                    IF n.last.outcome = "admit"
                    THEN [view |-> "ping", status |-> 200,
                          remaining_requests |-> n.last.returned[2],
                          reset_time |-> n.last.returned[3]]
                    ELSE [view |-> "ping", status |-> 429, limit |-> PingLimit,
                          window_seconds |-> PingWindowSeconds,
                          retry_after |-> PingWindowSeconds]
    /\ ncalls' = ncalls + 1
    /\ UNCHANGED <<now, cfg, written, first_call, threads>>

\* The valid request bodies of the run, for every identifier and strategy.
ValidBodies ==
    {[identifier |-> JStr(identifier), limit |-> JInt(cfg.limit),
      window |-> JInt(cfg.window_seconds), strategy |-> strategy] :
        identifier \in Identifiers, strategy \in {JAbsent, JStr(Sliding), JStr(Fixed)}}

\* The valid bodies, and those with one key missing or bad.
PostBodies ==
    LET good == [identifier |-> JStr(<<"a">>), limit |-> JInt(cfg.limit),
                 window |-> JInt(cfg.window_seconds), strategy |-> JAbsent]
        bad == {JAbsent, JNull, JInt(0), JInt(-1), JStr(<<"1">>), JBool(TRUE), JBool(FALSE)}
    IN  ValidBodies
        \cup {[good EXCEPT !.identifier = v] : v \in {JAbsent, JNull, JStr(<<>>)}}
        \cup {[good EXCEPT !.limit = v] : v \in bad}
        \cup {[good EXCEPT !.window = v] : v \in bad}
        \cup {[good EXCEPT !.strategy = v] : v \in {JNull, JStr(<<"t", "o", "k", "e", "n">>)}}

\* CustomLimitView.post: the request with the body data is answered.
CustomLimitView_post(data) ==
    LET identifier == DataGet(data, "identifier", JNull)
        limit == DataGet(data, "limit", JNull)
        window == DataGet(data, "window", JNull)
        strategy == DataGet(data, "strategy", JStr(Sliding))
        error == ValidationError(identifier, limit, window, strategy)
    IN  IF error # ""
        THEN /\ response' = [view |-> "custom-limit", data |-> data, status |-> 400,
                             error |-> error]
             /\ UNCHANGED <<store, cache, cache_ttl, cached_with, last, admits>>
        ELSE LET n == CallIn("A", identifier.str, CustomLimitEndpoint, IntValue(limit),
                             IntValue(window),
                             IF strategy = JStr(Sliding) THEN "sliding" ELSE "fixed",
                             TRUE)
             IN  /\ Commit("A", n)
                 /\ response' =
                       IF n.last.outcome = "admit"
                       THEN [view |-> "custom-limit", data |-> data, status |-> 200,
                             remaining_requests |-> n.last.returned[2],
                             limit |-> limit, window_seconds |-> window,
                             reset_time |-> n.last.returned[3]]
                       ELSE [view |-> "custom-limit", data |-> data, status |-> 429,
                             limit |-> limit, window_seconds |-> window,
                             retry_after |-> window]

\* POST /api/custom-limit/ with any of the bodies.
CustomLimitPost ==
    /\ ncalls < MaxRequests
    /\ \E data \in PostBodies : CustomLimitView_post(data)
    /\ ncalls' = ncalls + 1
    /\ UNCHANGED <<now, cfg, written, first_call, threads>>

NextViews == TickHour \/ PingGet \/ CustomLimitPost

SpecViews == InitViews /\ [][NextViews]_vars

\* ------------------------------------------------------ requests for the stats

\* POST /api/custom-limit/ with a valid body.
CustomLimitPostValid ==
    /\ ncalls < MaxRequests
    /\ \E data \in ValidBodies : CustomLimitView_post(data)
    /\ ncalls' = ncalls + 1
    /\ UNCHANGED <<now, cfg, written, first_call, threads>>

\* A mutant of StatsGet: the stats request is logged like an admitted one.
StatsGetLogged ==
    /\ ncalls < MaxRequests
    /\ \E identifier \in Identifiers, hours \in StatsHours :
          /\ response' \in StatsView_get(store["A"], identifier, hours, now)
          /\ store' = [store EXCEPT !["A"] = CreateLog(@, identifier, PingEndpoint, now)]
    /\ ncalls' = ncalls + 1
    /\ UNCHANGED <<now, cache, cache_ttl, cached_with, last, cfg, written, admits, first_call, threads>>

\* GET /api/stats/<identifier>/?hours=<hours>
StatsGet ==
    /\ ncalls < MaxRequests
    /\ \E identifier \in Identifiers, hours \in StatsHours :
          response' \in StatsView_get(store["A"], identifier, hours, now)
    /\ ncalls' = ncalls + 1
    /\ UNCHANGED <<now, store, cache, cache_ttl, cached_with, last, cfg, written, admits, first_call,
                   threads>>

NextStats == TickHour \/ PingGet \/ CustomLimitPostValid \/ StatsGet

SpecStats == InitViews /\ [][NextStats]_vars

\* ------------------------------------ requests for the stats, query by query

\* The three querysets of StatsView.get are lazy, and the view opens no
\* transaction: the database runs the count at line 159, the grouped query when
\* the response is built (list(stats), line 176) and the recent rows after it
\* (the comprehension of lines 177-183), each on the rows it finds then.
StatsTotal(rows, identifier, start_time) ==
    Cardinality(StatsFilter(rows, identifier, start_time))

StatsByEndpoint(rows, identifier, start_time) ==
    OrderByCountDesc(GroupByEndpoint(rows, StatsFilter(rows, identifier, start_time)))

StatsRecent(rows, identifier, start_time) ==
    {LET recent_requests ==
             SliceRecent(OrderByTimestampDesc(rows, StatsFilter(rows, identifier, start_time),
                                              ascending_ids))
     IN  [k \in DOMAIN recent_requests |->
             [endpoint |-> rows[recent_requests[k]].endpoint,
              timestamp |-> rows[recent_requests[k]].timestamp]]
       : ascending_ids \in BOOLEAN}

\* Lines 143-162: thread p takes a stats request, reads the clock and counts.
StatsCount(p) ==
    /\ ncalls < MaxRequests
    /\ threads[p] = Idle
    /\ \E identifier \in Identifiers, hours \in StatsHours :
          LET start_time == now - hours * SecondsPerHour
          IN  threads' = [threads EXCEPT ![p] =
                  [pc |-> "stats_list", identifier |-> identifier, hours |-> hours,
                   now |-> now, start_time |-> start_time,
                   total_requests |-> StatsTotal(store["A"], identifier, start_time)]]
    /\ ncalls' = ncalls + 1
    /\ UNCHANGED <<now, store, cache, cache_ttl, cached_with, last, cfg, written, admits, first_call,
                   response>>

\* Line 176: list(stats).
StatsList(p) ==
    /\ threads[p].pc = "stats_list"
    /\ \E stats \in StatsByEndpoint(store["A"], threads[p].identifier, threads[p].start_time) :
          threads' = [threads EXCEPT ![p] =
              [pc |-> "stats_recent", identifier |-> @.identifier, hours |-> @.hours,
               now |-> @.now, start_time |-> @.start_time,
               total_requests |-> @.total_requests, by_endpoint |-> stats]]
    /\ UNCHANGED <<now, store, cache, cache_ttl, cached_with, last, ncalls, cfg, written, admits,
                   first_call, response>>

\* Lines 170-184: the recent rows are fetched and the response is returned.
StatsRespond(p) ==
    /\ threads[p].pc = "stats_recent"
    /\ \E recent_requests \in
              StatsRecent(store["A"], threads[p].identifier, threads[p].start_time) :
          response' = [view |-> "stats", status |-> 200,
                       identifier |-> threads[p].identifier,
                       time_range_hours |-> threads[p].hours,
                       start_time |-> threads[p].start_time, end_time |-> threads[p].now,
                       total_requests |-> threads[p].total_requests,
                       by_endpoint |-> threads[p].by_endpoint,
                       recent_requests |-> recent_requests]
    /\ threads' = [threads EXCEPT ![p] = Idle]
    /\ UNCHANGED <<now, store, cache, cache_ttl, cached_with, last, ncalls, cfg, written, admits,
                   first_call>>

\* Other threads answer pings and custom-limit posts while a stats request is
\* under way.
NextStatsConcurrent ==
    \/ TickHour
    \/ PingGet
    \/ CustomLimitPostValid
    \/ \E p \in Threads :
          \/ StatsCount(p)
          \/ StatsList(p)
          \/ StatsRespond(p)

SpecStatsConcurrent == InitViews /\ [][NextStatsConcurrent]_vars

\* ------------------------------------------------- a store that may fail

\* One more call on the key, with the arguments of the run, in which the store
\* raises at the count or at the create.
CheckLimitStoreFails ==
    /\ ncalls < MaxCalls
    /\ \E fails_at \in StoreStatements :
          \E res \in {check_limit_store_fails(store["A"], CacheOfA, KeyAB_C[1], KeyAB_C[2],
                                              cfg.limit, cfg.window_seconds, cfg.strategy,
                                              cfg.use_cache, now, fails_at)} :
              /\ res.outcome = "DatabaseError"
              /\ store' = [store EXCEPT !["A"] = res.rows]
              /\ cache' = [cache EXCEPT !["A"] = res.cs.c]
              /\ cache_ttl' = [cache_ttl EXCEPT !["A"] = res.cs.ttl]
              /\ cached_with' = [cached_with EXCEPT
                                    !["A"] = [k \in DOMAIN res.cs.c |-> cfg.window_seconds]]
              /\ last' = [last EXCEPT !["A"] =
                             CallRecord(res, KeyAB_C[1], KeyAB_C[2], cfg.limit,
                                        cfg.window_seconds, cfg.strategy, cfg.use_cache, now)]
    /\ ncalls' = ncalls + 1
    /\ first_call' = IF ncalls = 0 THEN now ELSE first_call
    /\ UNCHANGED <<now, cfg, written, admits, threads, response>>

NextStoreFailure == Tick \/ CheckLimitUniform \/ CheckLimitStoreFails

SpecStoreFailure == InitUniform /\ [][NextStoreFailure]_vars

\* ------------------------------------ a cache above the high-water mark

\* Runs A and B make the same calls at the same times.  In run A HighWaterMark
\* other clients have each pinged once at time 0, so that the cache of A passes the
\* high-water mark with the first entry the callers add; in run B nobody else has
\* called and the sweep never runs.
MaxSweepCalls == 2
MaxSweepTime == 3

\* A short window and one longer than the time an entry of the short one lives.
SweepWindows == {1, MaxWindow + 1}

\* Two keys with different cache keys.
SweepKeys == {<<(<<"a">>), (<<"c">>)>>, KeyAB_C}

Digits == <<"0", "1", "2", "3", "4", "5", "6", "7", "8", "9">>

\* The address of the i-th of the other clients: the three digits of i - 1.
FillerIdentifier(i) ==
    <<Digits[((i - 1) \div 100) + 1], Digits[(((i - 1) \div 10) % 10) + 1],
      Digits[((i - 1) % 10) + 1]>>

\* The rows and the cache after the first n of the other clients have called
\* check_limit(identifier, '/api/ping/', 5, 60, 'sliding', True) at time 0: each
\* call misses, counts no row, is admitted, appends its row and caches the count 1.
FillerRows(n) ==
    [i \in 1..n |->
        [identifier |-> FillerIdentifier(i), endpoint |-> PingEndpoint, timestamp |-> 0]]

FillerKeys(n) == {_get_cache_key(FillerIdentifier(i), PingEndpoint) : i \in 1..n}

FillerCache(n) ==
    [c |-> [k \in FillerKeys(n) |-> <<0, 1>>],
     ttl |-> [k \in FillerKeys(n) |-> PingWindowSeconds]]

\* The callers of the run agree on the strategy and on a limit that a burst of
\* MaxSweepCalls calls exceeds; the key, the window and use_cache vary from call
\* to call.
InitSweep ==
    /\ now = 0
    /\ cfg \in [limit : {MaxSweepCalls - 1}, strategy : Strategies]
    /\ store = [r \in Runs |-> IF r = "A" THEN FillerRows(HighWaterMark) ELSE <<>>]
    /\ cache = [r \in Runs |-> IF r = "A" THEN FillerCache(HighWaterMark).c ELSE <<>>]
    /\ cache_ttl = [r \in Runs |-> IF r = "A" THEN FillerCache(HighWaterMark).ttl ELSE <<>>]
    /\ cached_with = [r \in Runs |->
           IF r = "A" THEN [k \in FillerKeys(HighWaterMark) |-> PingWindowSeconds] ELSE <<>>]
    /\ last = [r \in Runs |-> NoCall]
    /\ ncalls = 0
    /\ admits = [r \in Runs |-> [k \in AllKeys |-> 0]]
    /\ threads = [p \in Threads |-> Idle]
    /\ first_call = -1
    /\ response = NoResponse
    /\ written = {}

TickSweep == TickTo(MaxSweepTime)

\* Both runs make the same call.
CheckLimitSweep ==
    /\ ncalls < MaxSweepCalls
    /\ \E key \in SweepKeys, window_seconds \in SweepWindows, use_cache \in BOOLEAN :
          CallBoth(key, cfg.limit, window_seconds, cfg.strategy, use_cache,
                   cfg.strategy, use_cache)
    /\ ncalls' = ncalls + 1
    /\ UNCHANGED <<now, cfg, written, first_call, threads, response>>

\* The call of CallIn with use_cache=True, when the clock passes to the next second
\* between the two readings of timezone.now() in the last _set_cache of the call
\* (lines 60 and 61): the entry keeps its cache_time and expires a second later.
CallInAcrossTick(r, identifier, endpoint, limit, window_seconds, strategy) ==
    LET n == CallIn(r, identifier, endpoint, limit, window_seconds, strategy, TRUE)
        cache_key == _get_cache_key(identifier, endpoint)
        cs == SetCacheAt([c |-> n.cache, ttl |-> n.cache_ttl], identifier, endpoint,
                         n.cache[cache_key][2], window_seconds, now, now + 1)
    IN  [n EXCEPT !.cache = cs.c, !.cache_ttl = cs.ttl]

\* Both runs make the same cached call, which writes the cache (it misses, or is
\* admitted), and the clock ticks inside its last _set_cache.
CheckLimitAcrossTick ==
    /\ ncalls < MaxSweepCalls
    /\ now < MaxSweepTime
    /\ \E key \in SweepKeys, window_seconds \in SweepWindows :
          \E a \in {CallInAcrossTick("A", key[1], key[2], cfg.limit, window_seconds,
                                       cfg.strategy)},
             b \in {CallInAcrossTick("B", key[1], key[2], cfg.limit, window_seconds,
                                       cfg.strategy)} :
              /\ ~a.last.hit \/ a.last.outcome = "admit"
              /\ ~b.last.hit \/ b.last.outcome = "admit"
              /\ store' = [store EXCEPT !["A"] = a.store, !["B"] = b.store]
              /\ cache' = [cache EXCEPT !["A"] = a.cache, !["B"] = b.cache]
              /\ cache_ttl' = [cache_ttl EXCEPT !["A"] = a.cache_ttl, !["B"] = b.cache_ttl]
              /\ cached_with' = [cached_with EXCEPT !["A"] = a.cached_with,
                                                    !["B"] = b.cached_with]
              /\ last' = [last EXCEPT !["A"] = a.last, !["B"] = b.last]
              /\ admits' = [admits EXCEPT !["A"] = a.admits, !["B"] = b.admits]
    /\ now' = now + 1
    /\ ncalls' = ncalls + 1
    /\ UNCHANGED <<cfg, written, first_call, threads, response>>

NextSweep == TickSweep \/ CheckLimitSweep \/ CheckLimitAcrossTick

SpecSweep == InitSweep /\ [][NextSweep]_vars

\* ------------------------------------ sequential cached calls and sweeps

\* One caller after the other calls check_limit with use_cache=True on a cache
\* that is full of the entries of the other clients; every call that finds more
\* than 1000 entries sweeps.  The calls count by the sliding window.
InitMaps ==
    /\ InitSweep
    /\ cfg.strategy = "sliding"

\* The key and the window_seconds of a call: one key is called with either
\* window, the other with the short one.
MapsCalls ==
    {call \in SweepKeys \X SweepWindows : call[1] = KeyAB_C \/ call[2] = 1}

CheckLimitMaps ==
    /\ ncalls < MaxSweepCalls
    /\ \E call \in MapsCalls :
          Commit("A", CallIn("A", call[1][1], call[1][2], cfg.limit, call[2],
                             cfg.strategy, TRUE))
    /\ ncalls' = ncalls + 1
    /\ UNCHANGED <<now, cfg, written, first_call, threads, response>>

\* The same call when it writes the cache and the clock ticks inside its last
\* _set_cache.
CheckLimitMapsAcrossTick ==
    /\ ncalls < MaxSweepCalls
    /\ now < MaxSweepTime
    /\ \E call \in MapsCalls :
          \E a \in {CallInAcrossTick("A", call[1][1], call[1][2], cfg.limit, call[2],
                                       cfg.strategy)} :
              /\ ~a.last.hit \/ a.last.outcome = "admit"
              /\ Commit("A", a)
    /\ now' = now + 1
    /\ ncalls' = ncalls + 1
    /\ UNCHANGED <<cfg, written, first_call, threads, response>>

NextMaps == TickSweep \/ CheckLimitMaps \/ CheckLimitMapsAcrossTick

SpecMaps == InitMaps /\ [][NextMaps]_vars

\* ------------------------------------------------------------- the claims

\* The latest call of run r, and whether a call was just made.
Admitted(r) == last[r].outcome = "admit"
Denied(r) == last[r].outcome = "RateLimitExceeded"
IsAllowedOf(r) == last[r].returned[1]
RemainingOf(r) == last[r].returned[2]
CacheKeyOf(r) == _get_cache_key(last[r].identifier, last[r].endpoint)

\* The rows of one key with a timestamp in the closed interval [from, to].
RowsIn(rows, identifier, endpoint, from, to) ==
    {i \in DOMAIN rows :
        /\ rows[i].identifier = identifier
        /\ rows[i].endpoint = endpoint
        /\ from <= rows[i].timestamp
        /\ rows[i].timestamp <= to}

\* Whether times t1 <= t2 lie within one window of the strategy: at most
\* window_seconds apart for 'sliding', in one epoch-aligned bucket for 'fixed'.
InOneWindow(t1, t2, strategy, window_seconds) ==
    IF strategy = "sliding"
    THEN t2 - t1 <= window_seconds
    ELSE t1 \div window_seconds = t2 \div window_seconds

\* C1: from an empty store and cache, the first limit calls on a key made within
\* one window are admitted with remaining = limit-1, ..., 0 in that order, and
\* the (limit+1)-th call within that window raises RateLimitExceeded with a
\* current count of limit; for both strategies, with and without the cache.
C1_BurstOfLimitThenDenied ==
    (ncalls >= 1 /\ InOneWindow(first_call, last["A"].time, cfg.strategy, cfg.window_seconds)) =>
        /\ ncalls <= cfg.limit => (Admitted("A") /\ RemainingOf("A") = cfg.limit - ncalls)
        /\ ncalls = cfg.limit + 1 => (Denied("A") /\ last["A"].current_count = cfg.limit)

\* The (limit+1)-th call of a burst with limit 2, one second after the first call.
C1_Witness ==
    /\ cfg.limit = 2
    /\ ncalls = cfg.limit + 1
    /\ first_call < last["A"].time
    /\ InOneWindow(first_call, last["A"].time, cfg.strategy, cfg.window_seconds)
    /\ Denied("A")
    /\ admits["A"][KeyAB_C] = 2

\* C8: under the 'fixed' strategy a call at time t is admitted exactly when fewer
\* than limit requests of the key were admitted at times in
\* [floor(t / window_seconds) * window_seconds, t], with use_cache True or False.
C8_FixedWindowResets ==
    [][(ncalls' = ncalls + 1 /\ cfg.strategy = "fixed") =>
          LET bucket_start == (now \div cfg.window_seconds) * cfg.window_seconds
              n == Cardinality(RowsIn(store["A"], KeyAB_C[1], KeyAB_C[2], bucket_start, now))
          IN  Admitted("A")' <=> n < cfg.limit]_vars

\* The rows of one key in the active window of the run's strategy at time t.
ActiveRows(rows, key, t) ==
    RowsIn(rows, key[1], key[2],
           IF cfg.strategy = "sliding"
           THEN t - cfg.window_seconds
           ELSE (t \div cfg.window_seconds) * cfg.window_seconds,
           t)

\* C2: however the steps of concurrent check_limit calls on one key interleave,
\* the number of admitted requests whose rows fall in the active window never
\* exceeds limit.
C2_NoOvershootUnderConcurrency ==
    Cardinality(ActiveRows(store["A"], KeyAB_C, now)) <= cfg.limit

\* C3: fed the same calls at the same times from the same rows, the run with
\* use_cache=True and the run with use_cache=False admit and deny the same calls.
C3_CacheModesAgree ==
    last["A"].outcome = last["B"].outcome

\* C4: the outcome (admit or deny, and remaining) of every call on a key is what
\* it would be had no call on any other key been made.
C4_KeysIsolated ==
    (last["A"].outcome # "none" /\ <<last["A"].identifier, last["A"].endpoint>> = KeyAB_C) =>
        /\ last["A"].outcome = last["B"].outcome
        /\ last["A"].returned = last["B"].returned

\* C9: the sliding run never admits a call made when more than limit - 1 admitted
\* requests of the key lie in [now - window_seconds, now]; and on some timeline
\* with a burst across a multiple of window_seconds the fixed run admits more
\* requests than the sliding run (C9_Witness).
C9_SlidingNeverOverAdmits ==
    [][(ncalls' = ncalls + 1 /\ Admitted("B")') =>
          Cardinality(RowsIn(store["B"], KeyAB_C[1], KeyAB_C[2],
                             now - cfg.window_seconds, now)) <= cfg.limit - 1]_vars

\* The fixed run admitted more than the sliding run, and two of its admitted
\* requests lie less than window_seconds apart on the two sides of a multiple of
\* window_seconds.
C9_Witness ==
    /\ Len(store["A"]) > Len(store["B"])
    /\ admits["A"][KeyAB_C] > admits["B"][KeyAB_C]
    /\ \E i, j \in DOMAIN store["A"] :
          /\ store["A"][i].timestamp < store["A"][j].timestamp
          /\ store["A"][j].timestamp - store["A"][i].timestamp < cfg.window_seconds
          /\ store["A"][i].timestamp \div cfg.window_seconds
               < store["A"][j].timestamp \div cfg.window_seconds

\* The threads that have appended their row and not yet returned.
InFlightAfterCreate(key) ==
    {p \in Threads : /\ threads[p].pc = "update"
                     /\ <<threads[p].identifier, threads[p].endpoint>> = key}

\* C5: for every key the number of rows of that key is the number of calls on it
\* that returned an admit, plus the calls that have appended their row and are
\* about to return: an admitted call appends exactly one row with its identifier
\* and endpoint, and a denied call none.
C5_OneRowPerAdmit ==
    \A key \in AllKeys :
        Cardinality({i \in DOMAIN store["A"] :
                        <<store["A"][i].identifier, store["A"][i].endpoint>> = key})
            = admits["A"][key] + Cardinality(InFlightAfterCreate(key))

\* All calls are over: one was admitted and the latest one was denied.
C5_Witness ==
    /\ \A p \in Threads : threads[p].pc = "idle"
    /\ Denied("A")
    /\ admits["A"][KeyAB_C] = 1
    /\ Len(store["A"]) = 1

\* C6: every check_limit call that returns, returns is_allowed = True and
\* remaining = limit - (current_count + 1), which lies in 0 .. limit - 1: it is
\* never negative.
C6_RemainingInRange ==
    Admitted("A") =>
        /\ IsAllowedOf("A") = TRUE
        /\ RemainingOf("A") = last["A"].limit - (last["A"].current_count + 1)
        /\ 0 <= RemainingOf("A")
        /\ RemainingOf("A") <= last["A"].limit - 1

\* A call that was admitted on a cache hit and consumed the last slot.
C6_Witness ==
    /\ Admitted("A")
    /\ last["A"].hit
    /\ last["A"].limit = 2
    /\ RemainingOf("A") = 0

\* C7: a call that raises RateLimitExceeded leaves the rows as they were, and,
\* when it was decided from a cache hit, leaves the key's cache entry (count,
\* cache time and expiry) as it was.
C7_DeniedCallWritesNothing ==
    [][(ncalls' = ncalls + 1 /\ Denied("A")') =>
          /\ store'["A"] = store["A"]
          /\ last'["A"].hit =>
                 LET k == CacheKeyOf("A")'
                 IN  /\ k \in DOMAIN cache["A"] /\ k \in DOMAIN cache'["A"]
                     /\ cache'["A"][k] = cache["A"][k]
                     /\ cache_ttl'["A"][k] = cache_ttl["A"][k]]_vars

\* A denial decided from a cache entry written at an earlier second.
C7_Witness ==
    /\ Denied("A")
    /\ last["A"].hit
    /\ last["A"].time = now
    /\ CacheKeyOf("A") \in DOMAIN cache["A"]
    /\ cache["A"][CacheKeyOf("A")][1] < now

\* C10: with strategy 'sliding' and use_cache False the call is admitted exactly
\* when fewer than limit rows of the key have a timestamp in the closed interval
\* [now - window_seconds, now], whatever the cache holds.
C10_SlidingUncachedDecision ==
    [][(ncalls' = ncalls + 1 /\ last'["A"].strategy = "sliding" /\ ~last'["A"].use_cache) =>
          LET c == last'["A"]
              n == Cardinality(RowsIn(store["A"], c.identifier, c.endpoint,
                                      now - c.window_seconds, now))
          IN  Admitted("A")' <=> n < c.limit]_vars

\* An uncached sliding call denied because of a row exactly window_seconds old,
\* while the cache holds a smaller count for the key.
C10_Witness ==
    /\ Denied("A")
    /\ last["A"].strategy = "sliding"
    /\ ~last["A"].use_cache
    /\ last["A"].time = now
    /\ \E i \in DOMAIN store["A"] :
          /\ store["A"][i].identifier = last["A"].identifier
          /\ store["A"][i].endpoint = last["A"].endpoint
          /\ store["A"][i].timestamp = now - last["A"].window_seconds
    /\ CacheKeyOf("A") \in DOMAIN cache["A"]
    /\ cache["A"][CacheKeyOf("A")][2] < last["A"].current_count

\* C11: when the latest call on the key was denied at time t, the next call on
\* the key, made with the same limit, window and strategy at a time
\* >= t + window_seconds (the reset_time the spec reports), is admitted.
C11_RetryAtResetTimeAdmitted ==
    [][(/\ ncalls' = ncalls + 1
        /\ Denied("A")
        /\ now >= last["A"].time + cfg.window_seconds) => Admitted("A")']_vars

\* A step that answers a request to the stats view, and one that answers a
\* request to the custom-limit view.
StatsStep == ncalls' = ncalls + 1 /\ response'.view = "stats"
PostStep == ncalls' = ncalls + 1 /\ response'.view = "custom-limit"

\* The positions of the rows of an identifier with a timestamp >= from.
RowsSince(rows, identifier, from) ==
    {i \in DOMAIN rows : rows[i].identifier = identifier /\ from <= rows[i].timestamp}

RECURSIVE SumOfCounts(_)
SumOfCounts(by_endpoint) ==
    IF by_endpoint = <<>> THEN 0 ELSE Head(by_endpoint).count + SumOfCounts(Tail(by_endpoint))

\* C12: the stats summary of an identifier reports total_requests = the number
\* of its rows with timestamp >= now - hours; by_endpoint has one entry per
\* endpoint of these rows, with that endpoint's row count and latest timestamp,
\* in order of non-increasing count, and its counts sum to total_requests;
\* recent_requests holds min(10, total_requests) of these rows, newest first, and
\* no row left out is newer than a row shown.
C12_StatsSummaryCorrect ==
    [][StatsStep =>
          LET r == response'
              rows == store["A"]
              since == RowsSince(rows, r.identifier, now - r.time_range_hours * SecondsPerHour)
              endpoints == {rows[i].endpoint : i \in since}
              of(e) == {i \in since : rows[i].endpoint = e}
              shown == r.recent_requests
              records == {[endpoint |-> rows[i].endpoint, timestamp |-> rows[i].timestamp] :
                             i \in since}
              times_shown(v) == Cardinality({k \in DOMAIN shown : shown[k] = v})
              times_stored(v) == Cardinality({i \in since :
                  rows[i].endpoint = v.endpoint /\ rows[i].timestamp = v.timestamp})
          IN  /\ r.total_requests = Cardinality(since)
              /\ Len(r.by_endpoint) = Cardinality(endpoints)
              /\ {r.by_endpoint[k].endpoint : k \in DOMAIN r.by_endpoint} = endpoints
              /\ \A k \in DOMAIN r.by_endpoint :
                    LET g == r.by_endpoint[k]
                    IN  /\ g.count = Cardinality(of(g.endpoint))
                        /\ \E i \in of(g.endpoint) : rows[i].timestamp = g.last_request
                        /\ \A i \in of(g.endpoint) : rows[i].timestamp <= g.last_request
              /\ \A j, k \in DOMAIN r.by_endpoint :
                    j < k => r.by_endpoint[j].count >= r.by_endpoint[k].count
              /\ SumOfCounts(r.by_endpoint) = r.total_requests
              /\ Len(shown) = IF r.total_requests < 10 THEN r.total_requests ELSE 10
              /\ \A j, k \in DOMAIN shown : j < k => shown[j].timestamp >= shown[k].timestamp
              /\ \A k \in DOMAIN shown : shown[k] \in records
              /\ \A v \in records :
                    /\ times_shown(v) <= times_stored(v)
                    /\ times_shown(v) < times_stored(v) =>
                          \A k \in DOMAIN shown : shown[k].timestamp >= v.timestamp]_vars

\* A summary over 11 rows of two endpoints, 10 of them shown, from a store that
\* also holds a row of another identifier.
C12_Witness ==
    /\ response.view = "stats"
    /\ response.total_requests = 11
    /\ Len(response.by_endpoint) = 2
    /\ response.by_endpoint[1].count = 10
    /\ Len(response.recent_requests) = 10
    /\ \E i \in DOMAIN store["A"] : store["A"][i].identifier # response.identifier

\* C13: a stats request leaves the rows and the cache (entries and expiry times)
\* as they were, whatever the identifier and the period.
C13_StatsReadOnly ==
    [][StatsStep =>
          /\ store' = store
          /\ cache' = cache
          /\ cache_ttl' = cache_ttl]_vars

\* A stats request answered while the cache holds an entry written this second
\* and the store holds rows of the identifier.
C13_Witness ==
    /\ response.view = "stats"
    /\ response.total_requests > 0
    /\ \E k \in DOMAIN cache["A"] :
          /\ cache["A"][k][1] = now
          /\ cache["A"][k][2] > 0
          /\ cache_ttl["A"][k] > now

\* Whether a value of the body is what the claim calls a positive integer.
PositiveInteger(v) == v.t = "int" /\ v.int > 0

\* Whether the body must be refused: identifier missing or empty, limit or
\* window missing, not an integer or <= 0, or a strategy that is neither
\* 'sliding' nor 'fixed' (a body without the key has the default, 'sliding').
MustBeRefused(data) ==
    \/ data.identifier \in {JAbsent, JNull, JStr(<<>>)}
    \/ ~PositiveInteger(data.limit)
    \/ ~PositiveInteger(data.window)
    \/ data.strategy \notin {JAbsent, JStr(Sliding), JStr(Fixed)}

\* C14: a custom-limit request whose body must be refused is answered 400 and
\* check_limit is not called: the rows and the cache stay as they were; any
\* other request calls check_limit, and is answered 200 exactly when the call
\* admits and 429 exactly when it raises RateLimitExceeded.
C14_CustomLimitValidation ==
    [][PostStep =>
          IF MustBeRefused(response'.data)
          THEN /\ response'.status = 400
               /\ store' = store /\ cache' = cache /\ cache_ttl' = cache_ttl
               /\ last' = last
          ELSE /\ last'["A"].time = now
               /\ last'["A"].endpoint = CustomLimitEndpoint
               /\ last'["A"].identifier = response'.data.identifier.str
               /\ response'.status = 200 <=> Admitted("A")'
               /\ response'.status = 429 <=> Denied("A")'
               /\ response'.status \in {200, 429}]_vars

\* C15: a call decided from a cached count uses an entry written with the
\* call's own window length.  The calls of the model write an entry at one
\* instant, so the window an entry was written with is its expiry minus its
\* cache time; and when every row is a row of the call's key, no call on another
\* key has written the cache.
C15_EntryNotReusedAcrossWindows ==
    [][(/\ ncalls' = ncalls + 1
        /\ last'["A"].hit
        /\ \A i \in DOMAIN store["A"] :
              /\ store["A"][i].identifier = last'["A"].identifier
              /\ store["A"][i].endpoint = last'["A"].endpoint) =>
          LET k == CacheKeyOf("A")'
          IN  cache_ttl["A"][k] - cache["A"][k][1] = last'["A"].window_seconds]_vars

\* C16: the lookup of a call with use_cache=True gives a count exactly when the
\* key has an entry with now - cache_time < window_seconds, and then the entry's
\* count, be it 0; after a miss the entry becomes (now, the count of the rows in
\* the active window), and on an admit it becomes (now, current_count + 1).
C16_CacheLookupAndOverwrite ==
    [][\A p \in Threads :
          LET th == threads[p]
              k == _get_cache_key(th.identifier, th.endpoint)
              fresh == /\ k \in DOMAIN cache["A"]
                       /\ now - cache["A"][k][1] < cfg.window_seconds
          IN  /\ (th.pc = "lookup" /\ threads'[p] # th) =>
                    /\ fresh <=> threads'[p].pc # "count"
                    /\ (fresh /\ threads'[p].pc = "create") =>
                           /\ threads'[p].hit
                           /\ threads'[p].current_count = cache["A"][k][2]
                    /\ (fresh /\ threads'[p].pc = "idle") =>
                           /\ last'["A"].hit
                           /\ last'["A"].current_count = cache["A"][k][2]
              /\ (th.pc = "count" /\ threads'[p].pc = "cache_result") =>
                    threads'[p].current_count =
                        Cardinality(ActiveRows(store["A"], <<th.identifier, th.endpoint>>, now))
              /\ (th.pc = "cache_result" /\ threads'[p] # th) =>
                    cache'["A"][k] = <<now, th.current_count>>
              /\ (th.pc = "update" /\ threads'[p] # th) =>
                    cache'["A"][k] = <<now, th.current_count + 1>>]_vars

\* A call whose lookup found the count 0, cached by a call that has not yet
\* appended its row.
C16_Witness ==
    \E p \in Threads :
        /\ threads[p].pc = "create"
        /\ threads[p].hit
        /\ threads[p].current_count = 0

\* C17: when every call is sequential, with use_cache=True and the same limit,
\* window and strategy, the count a cache hit gives is at least the number of
\* the key's rows in the active window, and no key ever has more than limit
\* rows in its active window.
C17_CacheConservative ==
    [][ncalls' = ncalls + 1 =>
          LET key == <<last'["A"].identifier, last'["A"].endpoint>>
          IN  /\ last'["A"].hit =>
                    last'["A"].current_count >= Cardinality(ActiveRows(store["A"], key, now))
              /\ \A k \in FreeKeys :
                    Cardinality(ActiveRows(store'["A"], k, now)) <= cfg.limit]_vars

\* C18: a denial made at least two windows before the end of the run is
\* followed by an admitted retry, whatever retries, denied ones included, are
\* made in between: denied calls do not keep the key denied.
C18_DenialNotPermanent ==
    (Denied("A") /\ last["A"].time + 2 * cfg.window_seconds <= RetryHorizon)
        ~> Admitted("A")

\* A retry denied on a recount, which stamped the cache entry anew, made after
\* the first second and at least two windows before the end of the run.
C18_Witness ==
    /\ Denied("A")
    /\ ~last["A"].hit
    /\ cfg.use_cache
    /\ last["A"].time > 0
    /\ last["A"].time + 2 * cfg.window_seconds <= RetryHorizon
    /\ cache["A"][CacheKeyOf("A")] = <<last["A"].time, last["A"].current_count>>

\* C19: the sweep is advisory only: when two runs make the same check_limit calls
\* at the same times, one with a cache above the high-water mark, so that a sweep
\* runs before its calls, and one where the sweep never triggers, every call has
\* the same outcome (admit or RateLimitExceeded) in both.
C19_SweepAdvisory == last["A"].outcome = last["B"].outcome

\* A step in which both runs of SpecSweep make a call.
SweepStep == ncalls' = ncalls + 1

\* The sweep ran at the start of the call of run r that this step makes.
SweepRan(r) == Cardinality(DOMAIN cache[r]) > HighWaterMark

\* The entries of the other cache keys that the call of run r removed.
RemovedBy(r) ==
    {k \in DOMAIN cache[r] \ {_get_cache_key(last'[r].identifier, last'[r].endpoint)} :
        k \notin DOMAIN cache'[r]}

\* C20: a sweep runs at the start of a check_limit call exactly when the cache holds
\* more than 1000 entries, whatever use_cache is, and it removes exactly the entries
\* whose cached_at + the window_seconds they were cached with is before now (seen
\* on the entries of the keys other than the call's own, which the call may write
\* again).
C20_SweepRemovesExpired ==
    [][SweepStep =>
          \A r \in Runs :
             RemovedBy(r) =
                 {k \in DOMAIN cache[r] \
                        {_get_cache_key(last'[r].identifier, last'[r].endpoint)} :
                     SweepRan(r) /\ cache[r][k][1] + cached_with[r][k] < now}]_vars

\* The entry that a lookup for the pair key finds in the cache of run r: <<>> when
\* there is none.
EntryOf(r, key) ==
    LET cache_key == _get_cache_key(key[1], key[2])
    IN  IF cache_key \in DOMAIN cache[r] THEN <<cache[r][cache_key]>> ELSE <<>>

\* C21: the cache key is injective, also for identifiers and endpoints that
\* contain ':': two pairs that differ never map to the same cache entry, so a
\* cached call on one pair leaves the entry of every other pair as it was.
C21_CacheKeyInjective ==
    [][ncalls' = ncalls + 1 =>
          \A key \in FreeKeys \ {<<last'["A"].identifier, last'["A"].endpoint>>} :
              EntryOf("A", key)' = EntryOf("A", key)]_vars

\* C22: a stats response is a consistent snapshot, also when requests of the
\* identifier are admitted while it is computed: total_requests is the sum of
\* the by_endpoint counts, and the records in recent_requests are counted in
\* total_requests (they are not more than total_requests).
C22_StatsSnapshot ==
    response.view = "stats" =>
        /\ response.total_requests = SumOfCounts(response.by_endpoint)
        /\ Len(response.recent_requests) <= response.total_requests

\* The latest call of run r left check_limit with the store's exception.
Faulted(r) == last[r].outcome = "DatabaseError"

\* C23: a call in which the store fails, at the count or at the create, ends
\* with a fault that is neither an admit nor RateLimitExceeded; it appends no
\* row, and it leaves the cache entry of the key as it was, or, when it had
\* counted before the create failed, stamped with the counted value, never
\* with current_count + 1.
C23_StoreFailureConsistent ==
    [][(ncalls' = ncalls + 1 /\ Faulted("A")') =>
          /\ ~Admitted("A")' /\ ~Denied("A")'
          /\ last'["A"].returned = <<>>
          /\ store' = store
          /\ admits' = admits
          /\ \/ EntryOf("A", KeyAB_C)' = EntryOf("A", KeyAB_C)
             \/ /\ last'["A"].current_count >= 0
                /\ ~last'["A"].hit
                /\ EntryOf("A", KeyAB_C)' = <<(<<now, last'["A"].current_count>>)>>]_vars

\* The create failed after a recount that found a row: the entry holds the
\* counted value, stamped now, and the store has no row of this call.
C23_Witness ==
    /\ Faulted("A")
    /\ ~last["A"].hit
    /\ last["A"].current_count >= 1
    /\ last["A"].time = now
    /\ EntryOf("A", KeyAB_C) = <<(<<now, last["A"].current_count>>)>>
    /\ Len(store["A"]) = last["A"].current_count

\* C24: under concurrent calls on one key, the (cache_time, cache_count) a lookup
\* holds, from the tuple it read until the call ends, is a pair that one single
\* assignment stored: never the time of one write with the count of another.
Observed(p) ==
    LET th == threads[p]
        cache_key == _get_cache_key(th.identifier, th.endpoint)
    IN  (IF "cache_data" \in DOMAIN th THEN {<<cache_key, th.cache_data[1]>>} ELSE {})
        \cup (IF "cache_time" \in DOMAIN th
              THEN {<<cache_key, <<th.cache_time, th.cache_count>>>>} ELSE {})

C24_LookupSeesOneWrite == \A p \in Threads : Observed(p) \subseteq written

\* A lookup is about to use its pair while the entry has since been overwritten.
C24_Witness ==
    \E p \in Threads :
        /\ threads[p].pc = "age"
        /\ Cardinality(written) >= 2
        /\ cache["A"][_get_cache_key(threads[p].identifier, threads[p].endpoint)]
               # <<threads[p].cache_time, threads[p].cache_count>>

\* The entry of cache key k in run r expires no earlier than its cache_time + the
\* window_seconds it was written with.
ExpiryCovers(r, k) == cache_ttl[r][k] >= cache[r][k][1] + cached_with[r][k]

\* The cache keys of the callers of SpecMaps that run r holds.
CalledKeys(r) == {_get_cache_key(key[1], key[2]) : key \in SweepKeys} \cap DOMAIN cache[r]

\* The entries of the other clients as InitSweep stores them; each of them expires
\* at PingWindowSeconds = 0 + PingWindowSeconds.
OtherClients == FillerCache(HighWaterMark)

\* Apart from the called keys, run r holds the entries of the other clients as
\* they were stored.
OthersAsStored(r) ==
    LET called == CalledKeys(r)
    IN  /\ cache[r] = [k \in called |-> cache[r][k]] @@ OtherClients.c
        /\ cache_ttl[r] = [k \in called |-> cache_ttl[r][k]] @@ OtherClients.ttl
        /\ cached_with[r] = [k \in called |-> cached_with[r][k]]
                                @@ [k \in DOMAIN OtherClients.c |-> PingWindowSeconds]

\* C25: after any sequence of sequential calls and sweeps, _cache and _cache_ttl
\* have the same keys, and the expiry recorded for a key is not earlier than its
\* cache_time + the window_seconds of the call that wrote the entry.  (The entries
\* of the other clients are looked at one by one only when one of them differs
\* from what was stored for it.)
C25_CacheMapsAgree ==
    \A r \in Runs :
        /\ DOMAIN cache[r] = DOMAIN cache_ttl[r]
        /\ \A k \in CalledKeys(r) : ExpiryCovers(r, k)
        /\ OthersAsStored(r) \/ \A k \in DOMAIN cache[r] \ CalledKeys(r) : ExpiryCovers(r, k)

\* A sweep has removed the entry of a key that has a row, and an entry written
\* across a tick of the clock expires later than its cache_time + window_seconds.
C25_Witness ==
    /\ \E key \in SweepKeys :
          /\ RowsIn(store["A"], key[1], key[2], 0, now) # {}
          /\ _get_cache_key(key[1], key[2]) \notin DOMAIN cache["A"]
    /\ \E k \in DOMAIN cache["A"] :
          cache_ttl["A"][k] > cache["A"][k][1] + cached_with["A"][k]

====
